---- MODULE Spec2Model ----
(***************************************************************************)
(* DankCord, src/DankCord/objects.py: the event correlation Cache and the  *)
(* reply Parser.                                                           *)
(*                                                                         *)
(* Two specifications share the variables:                                 *)
(*   Spec        the Cache object under the gateway's events and clear();  *)
(*   ParserSpec  the Parser's extractors applied to reply texts.           *)
(*                                                                         *)
(* Text is a sequence of one-character strings.  Python's None is the      *)
(* empty tuple and a present value x the one-element tuple <<x>>.          *)
(***************************************************************************)
EXTENDS Integers, Sequences, FiniteSets, TLC

VARIABLES
    cache,        \* the Cache object: one field per attribute set in __init__
    last,         \* history: the last operation on the cache, its argument, the cache before it
    description,  \* the reply text handed to the Parser
    now,          \* the clock read by Parser.cooldown, in milliseconds
    item,         \* the item name the caller hands to buy / sell
    quantity,     \* the quantity the caller hands to buy / sell
    result        \* the outcome of the last Parser call

cacheVars == <<cache, last>>
parserVars == <<description, now, item, quantity, result>>
vars == <<cache, last, description, now, item, quantity, result>>

None == <<>>
Some(x) == <<x>>

----------------------------------------------------------------------------
(* Python containers *)

\* x in list
InList(x, list) == \E i \in 1..Len(list) : list[i] = x

\* list.remove(x): the first occurrence only
ListRemove(list, x) ==
    LET i == CHOOSE k \in 1..Len(list) : list[k] = x /\ \A j \in 1..(k - 1) : list[j] # x
    IN SubSeq(list, 1, i - 1) \o SubSeq(list, i + 1, Len(list))

\* del d[k]
DictDel(d, k) == [x \in DOMAIN d \ {k} |-> d[x]]

\* d[k] = v
DictSet(d, k, v) == [x \in DOMAIN d \cup {k} |-> IF x = k THEN v ELSE d[x]]

EmptyDict == [x \in {} |-> None]

----------------------------------------------------------------------------
(* The Cache *)

Nonces == {"n1", "n2"}
MessageIds == {"m1", "m2"}
Payloads == {"p1", "p2"}
MaxRaw == 2

\* Cache.__init__
NewCache ==
    [nonce_message_map |-> EmptyDict,
     interaction_create |-> <<>>,
     interaction_success |-> <<>>,
     raw_message_updates |-> <<>>,
     message_create |-> EmptyDict,
     message_updates |-> EmptyDict]

\* clear() with line 48-49 left out
ClearMapKeepUpdates(c, nonce) ==
    IF nonce \in DOMAIN c.nonce_message_map
    THEN [c EXCEPT !.nonce_message_map = DictDel(@, nonce)]
    ELSE c

ClearMap(c, nonce) ==
    IF nonce \in DOMAIN c.nonce_message_map
    THEN LET relevant_id == c.nonce_message_map[nonce]
         IN [c EXCEPT !.nonce_message_map = DictDel(@, nonce),
                      !.message_updates =
                          IF relevant_id \in DOMAIN @ THEN DictDel(@, relevant_id) ELSE @]
    ELSE c

\* clear() removing the head of interaction_create (pop(0)) instead of the nonce
ClearInteractionCreateHead(c, nonce) ==
    IF InList(nonce, c.interaction_create)
    THEN [c EXCEPT !.interaction_create = Tail(@)]
    ELSE c

ClearInteractionCreate(c, nonce) ==
    IF InList(nonce, c.interaction_create)
    THEN [c EXCEPT !.interaction_create = ListRemove(@, nonce)]
    ELSE c

ClearInteractionSuccess(c, nonce) ==
    IF InList(nonce, c.interaction_success)
    THEN [c EXCEPT !.interaction_success = ListRemove(@, nonce)]
    ELSE c

\* clear() emptying message_create instead of deleting the one entry
ClearMessageCreateAll(c, nonce) == [c EXCEPT !.message_create = EmptyDict]

ClearMessageCreate(c, nonce) ==
    IF nonce \in DOMAIN c.message_create
    THEN [c EXCEPT !.message_create = DictDel(@, nonce)]
    ELSE c

\* clear() with line 56 left out
ClearRawForgotten(c, nonce) == c

ClearRaw(c, nonce) == [c EXCEPT !.raw_message_updates = <<>>]

\* Cache.clear(nonce), as a function of the cache before the call
clear(c, nonce) ==
    ClearRaw(ClearMessageCreate(ClearInteractionSuccess(ClearInteractionCreate(
        ClearMap(c, nonce), nonce), nonce), nonce), nonce)

NoOp == [op |-> "none", nonce |-> "", before |-> NewCache]

Clear(nonce) ==
    /\ cache' = clear(cache, nonce)
    /\ last' = [op |-> "clear", nonce |-> nonce, before |-> cache]
    /\ UNCHANGED parserVars

(* The gateway's side.  The handlers that fill the cache are not part of     *)
(* objects.py; they follow the event kinds of the specification: a new       *)
(* message carries its nonce and its own message id, an edit carries a       *)
(* message id, an interaction acknowledgement or success carries the nonce.  *)
(* The platform sends one message, one acknowledgement and one success per   *)
(* nonce, and message ids are unique.                                        *)

MappedIds(c) == {c.nonce_message_map[n] : n \in DOMAIN c.nonce_message_map}

ObserveMessageCreate(nonce, id, payload) ==
    /\ nonce \notin DOMAIN cache.message_create
    /\ nonce \notin DOMAIN cache.nonce_message_map
    /\ id \notin MappedIds(cache)
    /\ cache' = [cache EXCEPT !.message_create = DictSet(@, nonce, payload),
                              !.nonce_message_map = DictSet(@, nonce, id)]
    /\ last' = [NoOp EXCEPT !.op = "message_create", !.nonce = nonce]
    /\ UNCHANGED parserVars

ObserveMessageUpdate(id, payload) ==
    /\ Len(cache.raw_message_updates) < MaxRaw
    /\ cache' = [cache EXCEPT !.raw_message_updates = Append(@, payload),
                              !.message_updates = DictSet(@, id, payload)]
    /\ last' = [NoOp EXCEPT !.op = "message_update"]
    /\ UNCHANGED parserVars

ObserveInteractionCreate(nonce) ==
    /\ ~InList(nonce, cache.interaction_create)
    /\ cache' = [cache EXCEPT !.interaction_create = Append(@, nonce)]
    /\ last' = [NoOp EXCEPT !.op = "interaction_create", !.nonce = nonce]
    /\ UNCHANGED parserVars

ObserveInteractionSuccess(nonce) ==
    /\ ~InList(nonce, cache.interaction_success)
    /\ cache' = [cache EXCEPT !.interaction_success = Append(@, nonce)]
    /\ last' = [NoOp EXCEPT !.op = "interaction_success", !.nonce = nonce]
    /\ UNCHANGED parserVars

----------------------------------------------------------------------------
(* Text: str methods *)

Coin == "$"        \* stands for the currency glyph U+23E3 of the patterns
NL == "\n"
Digits == {"0", "1", "2", "3", "4", "5", "6", "7", "8", "9"}

DigitValue(c) ==
    CASE c = "0" -> 0 [] c = "1" -> 1 [] c = "2" -> 2 [] c = "3" -> 3 [] c = "4" -> 4
      [] c = "5" -> 5 [] c = "6" -> 6 [] c = "7" -> 7 [] c = "8" -> 8 [] c = "9" -> 9

\* int(s) for a non-empty run of digits
RECURSIVE int(_)
int(s) == IF Len(s) = 0 THEN 0 ELSE 10 * int(SubSeq(s, 1, Len(s) - 1)) + DigitValue(s[Len(s)])

\* s[i:].startswith(w)
StartsAt(s, i, w) ==
    /\ i >= 1
    /\ i + Len(w) - 1 <= Len(s)
    /\ \A k \in 1..Len(w) : s[i + k - 1] = w[k]

\* w in s, for a non-empty w
Contains(s, w) == \E i \in 1..Len(s) : StartsAt(s, i, w)

\* s.replace(old, new), for a non-empty old: left to right, not overlapping
RECURSIVE ReplaceFrom(_, _, _, _)
ReplaceFrom(s, i, old, new) ==
    IF i > Len(s) THEN <<>>
    ELSE IF StartsAt(s, i, old) THEN new \o ReplaceFrom(s, i + Len(old), old, new)
    ELSE <<s[i]>> \o ReplaceFrom(s, i + 1, old, new)

replace(s, old, new) == ReplaceFrom(s, 1, old, new)

\* s.split(sep), for a one-character sep: "" splits into [""]
RECURSIVE SplitFrom(_, _, _, _)
SplitFrom(s, i, cur, sep) ==
    IF i > Len(s) THEN <<cur>>
    ELSE IF s[i] = sep THEN <<cur>> \o SplitFrom(s, i + 1, <<>>, sep)
    ELSE SplitFrom(s, i + 1, Append(cur, s[i]), sep)

split(s, sep) == SplitFrom(s, 1, <<>>, sep)

\* list[k:]
From(list, k) == SubSeq(list, k + 1, Len(list))

\* " ".join(list)
RECURSIVE join(_)
join(list) ==
    IF Len(list) = 0 THEN <<>>
    ELSE IF Len(list) = 1 THEN list[1]
    ELSE list[1] \o <<" ">> \o join(Tail(list))

\* list.index(x): 0 when x is not in the list (ValueError)
index(list, x) ==
    IF InList(x, list)
    THEN CHOOSE k \in 1..Len(list) : list[k] = x /\ \A j \in 1..(k - 1) : list[j] # x
    ELSE 0

----------------------------------------------------------------------------
(* Text: the patterns handed to re.findall.  XEnd(s, i) is the last position *)
(* of the match of pattern X that starts at position i, 0 when there is none *)

NoNewline(s, a, b) == \A k \in a..b : s[k] # NL

\* [0-9]+  and  (\d+)
DigitsEnd(s, i) ==
    IF i >= 1 /\ i <= Len(s) /\ s[i] \in Digits
    THEN CHOOSE j \in i..Len(s) :
             /\ \A k \in i..j : s[k] \in Digits
             /\ (j = Len(s) \/ s[j + 1] \notin Digits)
    ELSE 0

\* \*\*<glyph> [0-9]+\*\*
CoinEnd(s, i) ==
    LET d == DigitsEnd(s, i + 4)
    IN IF StartsAt(s, i, <<"*", "*", Coin, " ">>) /\ d > 0 /\ StartsAt(s, d + 1, <<"*", "*">>)
       THEN d + 2 ELSE 0

\* \*\*(.*?)\*\* : the nearest closing marker on the same line
BoldEnd(s, i) ==
    LET closes == {j \in (i + 2)..Len(s) :
                       StartsAt(s, j, <<"*", "*">>) /\ NoNewline(s, i + 2, j - 1)}
    IN IF StartsAt(s, i, <<"*", "*">>) /\ closes # {}
       THEN (CHOOSE j \in closes : \A k \in closes : j <= k) + 1 ELSE 0

\* <(.*?)\> : the nearest closing bracket on the same line
AngleEnd(s, i) ==
    LET closes == {j \in (i + 1)..Len(s) : s[j] = ">" /\ NoNewline(s, i + 1, j - 1)}
    IN IF i <= Len(s) /\ s[i] = "<" /\ closes # {}
       THEN CHOOSE j \in closes : \A k \in closes : j <= k ELSE 0

\* \*\*[0-9]+x
AmountEnd(s, i) ==
    LET d == DigitsEnd(s, i + 2)
    IN IF StartsAt(s, i, <<"*", "*">>) /\ d > 0 /\ StartsAt(s, d + 1, <<"x">>)
       THEN d + 1 ELSE 0

\* \*\*[0-9]+x .+\*\* : the farthest closing marker on the same line
AmountItemEnd(s, i) ==
    LET a == AmountEnd(s, i)
        closes == {j \in (a + 3)..Len(s) :
                       StartsAt(s, j, <<"*", "*">>) /\ NoNewline(s, a + 2, j - 1)}
    IN IF a > 0 /\ StartsAt(s, a + 1, <<" ">>) /\ closes # {}
       THEN (CHOOSE j \in closes : \A k \in closes : j >= k) + 1 ELSE 0

\* \*\*.*\* : the farthest asterisk on the same line
StarsEnd(s, i) ==
    LET closes == {j \in (i + 2)..Len(s) : s[j] = "*" /\ NoNewline(s, i + 2, j - 1)}
    IN IF StartsAt(s, i, <<"*", "*">>) /\ closes # {}
       THEN CHOOSE j \in closes : \A k \in closes : j >= k ELSE 0

\* [0-9]+x
TimesEnd(s, i) ==
    LET d == DigitsEnd(s, i)
    IN IF d > 0 /\ StartsAt(s, d + 1, <<"x">>) THEN d + 1 ELSE 0

\* re.findall: the matches left to right, each search resuming after the last
\* match; ends[i] is the pattern's end for a match starting at i
RECURSIVE Spans(_, _)
Spans(ends, i) ==
    IF i > Len(ends) THEN <<>>
    ELSE IF ends[i] > 0 THEN <<<<i, ends[i]>>>> \o Spans(ends, ends[i] + 1)
    ELSE Spans(ends, i + 1)

\* the matched texts, cut by `lead` characters in front and `trail` behind
\* (the pattern's one group, when it has one)
Matches(s, ends, lead, trail) ==
    LET sp == Spans(ends, 1)
    IN [k \in 1..Len(sp) |-> SubSeq(s, sp[k][1] + lead, sp[k][2] - trail)]

findallDigits(s) == Matches(s, [i \in 1..Len(s) |-> DigitsEnd(s, i)], 0, 0)
findallCoin(s) == Matches(s, [i \in 1..Len(s) |-> CoinEnd(s, i)], 0, 0)
findallBold(s) == Matches(s, [i \in 1..Len(s) |-> BoldEnd(s, i)], 2, 2)
findallAngle(s) == Matches(s, [i \in 1..Len(s) |-> AngleEnd(s, i)], 1, 1)
findallAmount(s) == Matches(s, [i \in 1..Len(s) |-> AmountEnd(s, i)], 0, 0)
findallAmountItem(s) == Matches(s, [i \in 1..Len(s) |-> AmountItemEnd(s, i)], 0, 0)
findallStars(s) == Matches(s, [i \in 1..Len(s) |-> StarsEnd(s, i)], 0, 0)
findallTimes(s) == Matches(s, [i \in 1..Len(s) |-> TimesEnd(s, i)], 0, 0)

----------------------------------------------------------------------------
(* CommandResult *)

\* A gain / loss dict: the "coins" entry, the "items" entry (a list of
\* one-entry dicts {quantity: name}), and the entry that buy / sell key by
\* the quantity itself.  isNone: the argument was None, not a dict.
Dict(coins, items, byQuantity) ==
    [isNone |-> FALSE, coins |-> coins, items |-> items, byQuantity |-> byQuantity]

EmptyGain == Dict(None, None, None)
NoneGain == [EmptyGain EXCEPT !.isNone = TRUE]

\* round(x, 2), on milliseconds.  A value ending in 5 ms is a tie, which
\* Python settles by the binary float: NowValues holds no such reading.
Round2(ms) == ((ms + 5) \div 10) * 10

\* CommandResult.__init__; cooldown in milliseconds
CommandResult(success, death, gain, loss, cooldown) ==
    [success |-> success,
     death |-> death,
     gain |-> gain,
     loss |-> loss,
     cooldown |-> IF cooldown # None /\ cooldown[1] # 0
                  THEN Some(Round2(cooldown[1])) ELSE cooldown]

\* what a call comes to: a CommandResult returned, or an exception raised
Returned(r) == [raised |-> FALSE, value |-> r]
Raised == [raised |-> TRUE, value |-> CommandResult(FALSE, None, NoneGain, NoneGain, None)]

----------------------------------------------------------------------------
(* Parser *)

Comma == <<",">>
Stars == <<"*", "*">>

\* int(findall(gain_regex[1], findall(gain_regex[0], temp_desc)[0])[0]),
\* None when the indexing raises
GainedCoins(temp_desc) ==
    LET found == findallCoin(temp_desc)
    IN IF Len(found) = 0 THEN None ELSE Some(int(findallDigits(found[1])[1]))

\* not gained_coins
NotCoins(gained_coins) == gained_coins = None \/ gained_coins[1] = 0

\* tempstring = "<" + findall("<(.*?)\>", item)[0] + "> "; item.replace(tempstring, "")
\* the item unchanged when the indexing raises
StripEmoji(name) ==
    LET tags == findallAngle(name)
    IN IF Len(tags) = 0 THEN name
       ELSE replace(name, <<"<">> \o tags[1] \o <<">", " ">>, <<>>)

\* beg, lines 282-284: gained_item is bound first; a tag found, line 284 reads
\* the unbound local `item` and raises, and the bare except leaves gained_item
\* as it is; no tag found, line 283 raises, with the same end
BegItemNoCoins(bolds) == bolds[1]

\* beg, lines 286-288
BegItemCoins(bolds) == StripEmoji(bolds[2])

\* lines 280-290 of beg: the item, None when the indexing raises
BegItem(temp_desc, gained_coins) ==
    LET bolds == findallBold(temp_desc)
    IN IF NotCoins(gained_coins)
       THEN IF Len(bolds) < 1 THEN None ELSE Some(BegItemNoCoins(bolds))
       ELSE IF Len(bolds) < 2 THEN None ELSE Some(BegItemCoins(bolds))

\* the gain dict of beg and crime
CoinItemGain(gained_coins, gained_item) ==
    Dict(IF NotCoins(gained_coins) THEN None ELSE gained_coins,
         IF gained_item # None /\ gained_item[1] # <<>>
         THEN Some(<<[quantity |-> 1, name |-> gained_item]>>) ELSE None,
         None)

beg(desc) ==
    LET temp_desc == replace(desc, Comma, <<>>)
        gained_coins == GainedCoins(temp_desc)
        gained_item == BegItem(temp_desc, gained_coins)
        success == gained_coins # None \/ gained_item # None
    IN Returned(CommandResult(success, None, CoinItemGain(gained_coins, gained_item),
                              EmptyGain, None))

\* lines 358-368 of crime
CrimeItem(temp_desc, gained_coins) ==
    LET bolds == findallBold(temp_desc)
    IN IF NotCoins(gained_coins)
       THEN IF Len(bolds) < 1 THEN None ELSE Some(StripEmoji(bolds[1]))
       ELSE IF Len(bolds) < 2 THEN None ELSE Some(StripEmoji(bolds[2]))

crime(desc) ==
    LET temp_desc == replace(desc, Comma, <<>>)
        gained_coins == GainedCoins(temp_desc)
        crime_item == CrimeItem(temp_desc, gained_coins)
        success == gained_coins # None \/ crime_item # None
    IN Returned(CommandResult(success, None, CoinItemGain(gained_coins, crime_item),
                              EmptyGain, None))

\* lines 307-311 of search: item_amount and item, each None when not reached
SearchItem(temp_desc) ==
    LET amounts == findallAmount(temp_desc)
        spans == findallAmountItem(temp_desc)
    IN IF Len(amounts) = 0 THEN [item_amount |-> None, name |-> None]
       ELSE [item_amount |-> Some(int(replace(replace(amounts[1], Stars, <<>>), <<"x">>, <<>>))),
             name |-> IF Len(spans) = 0 THEN None
                      ELSE Some(join(From(split(replace(spans[1], Stars, <<>>), " "), 2)))]

\* success of search: whether the coin pattern was found (lines 313-318)
SearchSuccess(gained_coins) == gained_coins # None

search(desc) ==
    LET temp_desc == replace(desc, Comma, <<>>)
        found == SearchItem(temp_desc)
        gained_coins == GainedCoins(temp_desc)
        gain == Dict(IF NotCoins(gained_coins) THEN None ELSE gained_coins,
                     IF found.item_amount # None /\ found.item_amount[1] # 0
                     THEN Some(<<[quantity |-> found.item_amount[1], name |-> found.name]>>)
                     ELSE None,
                     None)
    IN Returned(CommandResult(SearchSuccess(gained_coins), None, gain, EmptyGain, None))

common1(desc) ==
    LET temp_desc == replace(desc, Comma, <<>>)
        found == findallStars(temp_desc)
        gained_items == IF Len(found) = 0 THEN None
                        ELSE Some(join(From(split(replace(found[1], Stars, <<>>), " "), 1)))
        success == gained_items # None
        gain == Dict(None,
                     IF gained_items # None /\ gained_items[1] # <<>>
                     THEN Some(<<[quantity |-> 1, name |-> gained_items]>>) ELSE None,
                     None)
    IN Returned(CommandResult(success, None, gain, EmptyGain, None))

Received == <<"*", "*", "Y", "o", "u", " ", "R", "e", "c", "e", "i", "v", "e", "d">>
ReceivedLine == Received \o <<":", "*", "*">>

\* one pass of the loop of lines 391-399 over line i; acc.raised once a pass raised
PostmemesLine(acc, i) ==
    IF acc.raised THEN acc
    ELSE IF Contains(i, <<Coin>>)
    THEN IF Len(findallDigits(i)) = 0 THEN [acc EXCEPT !.raised = TRUE]
         ELSE [acc EXCEPT !.gain.coins = Some(int(findallDigits(i)[1]))]
    ELSE IF Contains(i, <<"<", ":">>)
    THEN IF Len(findallTimes(i)) = 0 THEN [acc EXCEPT !.raised = TRUE]
         ELSE LET amount == int(replace(findallTimes(i)[1], <<"x">>, <<>>))
                  name == join(From(split(i, " "), 5))
                  entry == [quantity |-> amount, name |-> Some(name)]
              IN [acc EXCEPT !.gain.items =
                                 IF @ = None THEN Some(<<entry>>) ELSE Some(Append(@[1], entry))]
    ELSE acc

RECURSIVE PostmemesLoop(_, _, _)
PostmemesLoop(acc, parsed, k) ==
    IF k > Len(parsed) THEN acc
    ELSE PostmemesLoop(PostmemesLine(acc, parsed[k]), parsed, k + 1)

\* lines 380-385 of postmemes
PostmemesParsed(desc) ==
    LET parsed == From(split(replace(desc, Comma, <<>>), NL), 3)
        at == index(parsed, ReceivedLine)
    IN IF at = 0 THEN parsed ELSE From(parsed, at - 1)

postmemes(desc) ==
    IF Contains(desc, Received)
    THEN LET acc == PostmemesLoop([raised |-> FALSE, gain |-> EmptyGain], PostmemesParsed(desc), 1)
         IN IF acc.raised THEN Raised
            ELSE Returned(CommandResult(TRUE, None, acc.gain, EmptyGain, None))
    ELSE Returned(CommandResult(FALSE, None, EmptyGain, EmptyGain, None))

Bought == <<"b", "o", "u", "g", "h", "t">>
AndPaid == <<"a", "n", "d", " ", "p", "a", "i", "d">>
Sold == <<"s", "o", "l", "d">>
AndGotPaid == <<"a", "n", "d", " ", "g", "o", "t", " ", "p", "a", "i", "d">>

\* int(findall("[0-9]+", findall("\*\*(.*?)\*\*", temp_desc)[k])[0]), k counted
\* from 0; None when the indexing raises
Price(temp_desc, k) ==
    LET bolds == findallBold(temp_desc)
    IN IF Len(bolds) < k + 1 THEN None
       ELSE IF Len(findallDigits(bolds[k + 1])) = 0 THEN None
       ELSE Some(int(findallDigits(bolds[k + 1])[1]))

\* {quantity: item}
ItemEntry(it, qty) == Dict(None, None, Some([quantity |-> qty, name |-> Some(it)]))

\* buy naming the item by the text's first bold span
buyItemFromText(desc, it, qty) ==
    IF Contains(desc, Bought) /\ Contains(desc, AndPaid)
    THEN LET paid == Price(replace(desc, Comma, <<>>), 1)
         IN IF paid = None THEN Raised
            ELSE Returned(CommandResult(TRUE, None,
                                        ItemEntry(findallBold(replace(desc, Comma, <<>>))[1], qty),
                                        Dict(paid, None, None), None))
    ELSE Returned(CommandResult(FALSE, None, NoneGain, NoneGain, None))

buy(desc, it, qty) ==
    IF Contains(desc, Bought) /\ Contains(desc, AndPaid)
    THEN LET paid == Price(replace(desc, Comma, <<>>), 1)
         IN IF paid = None THEN Raised
            ELSE Returned(CommandResult(TRUE, None, ItemEntry(it, qty),
                                        Dict(paid, None, None), None))
    ELSE Returned(CommandResult(FALSE, None, NoneGain, NoneGain, None))

sell(desc, it, qty) ==
    IF Contains(desc, Sold) /\ Contains(desc, AndGotPaid)
    THEN LET earned == Price(replace(desc, Comma, <<>>), 0)
         IN IF earned = None THEN Raised
            ELSE Returned(CommandResult(TRUE, None, Dict(earned, None, None),
                                        ItemEntry(it, qty), None))
    ELSE Returned(CommandResult(FALSE, None, NoneGain, NoneGain, None))

\* int(findall("(\d+)", findall("<(.*?)\>", description)[0])[0]): the timestamp
\* the code reads, None when the indexing raises
CooldownStamp(desc) ==
    LET tags == findallAngle(desc)
    IN IF Len(tags) = 0 THEN None
       ELSE IF Len(findallDigits(tags[1])) = 0 THEN None
       ELSE Some(int(findallDigits(tags[1])[1]))

\* cooldown reporting a success
cooldownSucceeds(desc, clock) ==
    LET time == CooldownStamp(desc)
    IN IF time = None THEN Raised
       ELSE Returned(CommandResult(TRUE, None, EmptyGain, EmptyGain,
                                   Some(time[1] * 1000 - clock)))

\* Parser.cooldown at clock reading clock (milliseconds)
cooldown(desc, clock) ==
    LET time == CooldownStamp(desc)
    IN IF time = None THEN Raised
       ELSE LET difference == time[1] * 1000 - clock
            IN Returned(CommandResult(FALSE, None, EmptyGain, EmptyGain, Some(difference)))

----------------------------------------------------------------------------
(* The reply texts: up to MaxFrags pieces of the replies' markup, joined *)

\* a coin amount, with a thousands separator
FragCoins ==
    <<"*", "*", "$", " ", "1", ",", "5", "*", "*">>

\* a coin amount of zero
FragZeroCoins ==
    <<"*", "*", "$", " ", "0", "*", "*">>

\* a bold span: emoji tag, item name
FragItem ==
    <<"*", "*", "<", ":", "a", ":", "1", ">", " ", "I", "t", "*", "*">>

\* a bold span without a tag
FragPlainItem ==
    <<"*", "*", "I", "t", "*", "*">>

\* a custom-emoji tag
FragEmoji ==
    <<"<", ":", "a", ":", "1", ">", " ">>

\* search: amount, tag, item name
FragAmountItem ==
    <<"*", "*", "2", "x", " ", "<", ":", "a", ":", "1", ">", " ", "I", "t", " ", "E",
      "m", "*", "*">>

\* postmemes: three lines, then the marker line
FragHeader ==
    <<"h", "\n", "h", "\n", "h", "\n", "*", "*", "Y", "o", "u", " ", "R", "e", "c",
      "e", "i", "v", "e", "d", ":", "*", "*", "\n">>

\* postmemes: a coin line
FragCoinLine ==
    <<"$", " ", "7", " ">>

\* postmemes: an item line
FragItemLine ==
    <<"\n", "<", ":", "a", ":", "1", ">", " ", "2", "x", " ", "a", " ", "b", " ", "c",
      " ", "I", "t">>

\* buy: the confirmation
FragBought ==
    <<"b", "o", "u", "g", "h", "t", " ", "*", "*", "I", "t", "*", "*", " ", "a", "n",
      "d", " ", "p", "a", "i", "d", " ">>

\* sell: the confirmation
FragSold ==
    <<"s", "o", "l", "d", " ", "a", "n", "d", " ", "g", "o", "t", " ", "p", "a", "i",
      "d", " ">>

\* a time tag carrying the timestamp 50
FragTimeTag ==
    <<"<", "t", ":", "5", "0", ":", "R", ">">>

\* a lone bold marker
FragStars ==
    <<"*", "*">>

FragSpace ==
    <<" ">>

\* an angle-bracket span without digits
FragTag ==
    <<"<", "a", ">">>

FragNewline ==
    <<"\n">>

Fragments ==
    {FragCoins,
     FragZeroCoins,
     FragItem,
     FragPlainItem,
     FragEmoji,
     FragAmountItem,
     FragHeader,
     FragCoinLine,
     FragItemLine,
     FragBought,
     FragSold,
     FragTimeTag,
     FragStars,
     FragSpace,
     FragTag,
     FragNewline}

MaxFrags == 2

RECURSIVE Concat(_)
Concat(pieces) == IF Len(pieces) = 0 THEN <<>> ELSE pieces[1] \o Concat(Tail(pieces))

Texts == {Concat(pieces) : pieces \in UNION {[1..n -> Fragments] : n \in 0..MaxFrags}}

Items == {<<"I", "t">>, <<"A", "b">>}
Quantities == {1, 2}
\* clock readings in milliseconds, none ending in 5
NowValues == {40000, 38766, 50004}

NoCall == [family |-> "none", raised |-> FALSE, value |-> Raised.value]
Call(family, outcome) == [family |-> family, raised |-> outcome.raised, value |-> outcome.value]

\* The extractors are functions of their arguments alone: one call per text.
Beg ==
    /\ result = NoCall
    /\ result' = Call("beg", beg(description))
    /\ UNCHANGED <<cache, last, description, now, item, quantity>>

Search ==
    /\ result = NoCall
    /\ result' = Call("search", search(description))
    /\ UNCHANGED <<cache, last, description, now, item, quantity>>

Common1 ==
    /\ result = NoCall
    /\ result' = Call("common1", common1(description))
    /\ UNCHANGED <<cache, last, description, now, item, quantity>>

Crime ==
    /\ result = NoCall
    /\ result' = Call("crime", crime(description))
    /\ UNCHANGED <<cache, last, description, now, item, quantity>>

Postmemes ==
    /\ result = NoCall
    /\ result' = Call("postmemes", postmemes(description))
    /\ UNCHANGED <<cache, last, description, now, item, quantity>>

Buy(it, qty) ==
    /\ result = NoCall
    /\ item' = it
    /\ quantity' = qty
    /\ result' = Call("buy", buy(description, it, qty))
    /\ UNCHANGED <<cache, last, description, now>>

Sell(it, qty) ==
    /\ result = NoCall
    /\ item' = it
    /\ quantity' = qty
    /\ result' = Call("sell", sell(description, it, qty))
    /\ UNCHANGED <<cache, last, description, now>>

Cooldown(clock) ==
    /\ result = NoCall
    /\ now' = clock
    /\ result' = Call("cooldown", cooldown(description, clock))
    /\ UNCHANGED <<cache, last, description, item, quantity>>

ParserIdle ==
    /\ description = <<>>
    /\ now = 0
    /\ item = <<>>
    /\ quantity = 0
    /\ result = NoCall

Init ==
    /\ cache = NewCache
    /\ last = NoOp
    /\ ParserIdle

Next ==
    \/ \E nonce \in Nonces : Clear(nonce)
    \/ \E nonce \in Nonces, id \in MessageIds, payload \in Payloads :
           ObserveMessageCreate(nonce, id, payload)
    \/ \E id \in MessageIds, payload \in Payloads : ObserveMessageUpdate(id, payload)
    \/ \E nonce \in Nonces : ObserveInteractionCreate(nonce)
    \/ \E nonce \in Nonces : ObserveInteractionSuccess(nonce)

Spec == Init /\ [][Next]_vars

ParserInit ==
    /\ cache = NewCache
    /\ last = NoOp
    /\ description \in Texts
    /\ now = 0
    /\ item = <<>>
    /\ quantity = 0
    /\ result = NoCall

ParserNext ==
    \/ Beg
    \/ Search
    \/ Common1
    \/ Crime
    \/ Postmemes
    \/ \E it \in Items, qty \in Quantities : Buy(it, qty)
    \/ \E it \in Items, qty \in Quantities : Sell(it, qty)
    \/ \E clock \in NowValues : Cooldown(clock)

ParserSpec == ParserInit /\ [][ParserNext]_vars

----------------------------------------------------------------------------
(* Properties of Cache.clear, under Spec *)

\* the nonce occurs in none of the cache's structures
Absent(c, nonce) ==
    /\ nonce \notin DOMAIN c.nonce_message_map
    /\ nonce \notin DOMAIN c.message_create
    /\ ~InList(nonce, c.interaction_create)
    /\ ~InList(nonce, c.interaction_success)

\* C1: right after clear(t), t occurs in none of nonce_message_map,
\* message_create, interaction_create and interaction_success, and
\* message_updates holds no entry for the message id that nonce_message_map
\* mapped t to before the call.
C1_ClearRemovesEntry ==
    last.op = "clear" =>
        /\ Absent(cache, last.nonce)
        /\ last.nonce \in DOMAIN last.before.nonce_message_map =>
               last.before.nonce_message_map[last.nonce] \notin DOMAIN cache.message_updates

\* a clear of a nonce that was in all four structures, with an update recorded
\* for its message
C1_Witness ==
    /\ last.op = "clear"
    /\ last.nonce \in DOMAIN last.before.nonce_message_map
    /\ last.before.nonce_message_map[last.nonce] \in DOMAIN last.before.message_updates
    /\ last.nonce \in DOMAIN last.before.message_create
    /\ InList(last.nonce, last.before.interaction_create)
    /\ InList(last.nonce, last.before.interaction_success)

\* C2: every clear, for any nonce, known to the cache or not, leaves
\* raw_message_updates empty.
C2_ClearFlushesRaw ==
    last.op = "clear" => cache.raw_message_updates = <<>>

\* a clear of a nonce the cache did not know, while fragments had accumulated
\* and another nonce was in flight
C2_Witness ==
    /\ last.op = "clear"
    /\ Absent(last.before, last.nonce)
    /\ Len(last.before.raw_message_updates) >= 2
    /\ \E other \in Nonces \ {last.nonce} : other \in DOMAIN last.before.nonce_message_map

\* C3 as stated: clear(t) of a nonce that occurs in none of the structures
\* leaves the whole cache unchanged.
C3_AbsentClearChangesNothing ==
    last.op = "clear" /\ Absent(last.before, last.nonce) => cache = last.before

\* C3 as amended: clear(t) of a nonce that occurs in none of the structures
\* leaves every structure unchanged but raw_message_updates, which it empties;
\* a second clear(t) then changes nothing.
C3_AbsentClearOnlyFlushesRaw ==
    last.op = "clear" /\ Absent(last.before, last.nonce) =>
        /\ cache = [last.before EXCEPT !.raw_message_updates = <<>>]
        /\ clear(cache, last.nonce) = cache

\* a clear of an absent nonce in a cache that held fragments and another
\* nonce's entries
C3_Witness ==
    /\ last.op = "clear"
    /\ Absent(last.before, last.nonce)
    /\ last.before.raw_message_updates # <<>>
    /\ last.before.interaction_create # <<>>
    /\ DOMAIN last.before.message_create # {}

----------------------------------------------------------------------------
(* Properties of the Parser, under ParserSpec *)

FamilyNames == {"beg", "search", "common1", "crime", "postmemes", "buy", "sell"}

\* a family extractor returned a CommandResult
FamilyReturned == result.family \in FamilyNames /\ ~result.raised

\* {} or None
IsEmpty(d) == d = EmptyGain \/ d = NoneGain

\* C4: a returned CommandResult whose cooldown is set has success false and
\* empty gain and loss.
C4_CooldownCarriesNoOutcome ==
    result.family # "none" /\ ~result.raised /\ result.value.cooldown # None =>
        /\ result.value.success = FALSE
        /\ result.value.gain = EmptyGain
        /\ result.value.loss = EmptyGain

\* cooldown returned a time still to wait
C4_Witness ==
    /\ result.family = "cooldown"
    /\ ~result.raised
    /\ result.value.cooldown # None
    /\ result.value.cooldown[1] > 0

\* C5: no family extractor returns success false together with a non-empty
\* gain or loss.
C5_FailureCarriesNothing ==
    FamilyReturned /\ result.value.success = FALSE =>
        IsEmpty(result.value.gain) /\ IsEmpty(result.value.loss)

\* C6: in beg and crime the item is taken from the second bold span when the
\* coin pattern matched (whatever the amount) and from the first when it did
\* not, and the bold span of the coin amount is never the item.
C6_ItemIsThePositionalSpan ==
    result.family \in {"beg", "crime"} /\ ~result.raised /\ result.value.gain.items # None =>
        LET temp_desc == replace(description, Comma, <<>>)
            bolds == findallBold(temp_desc)
            coins == findallCoin(temp_desc)
            k == IF Len(coins) > 0 THEN 2 ELSE 1
            name == result.value.gain.items[1][1].name[1]
        IN /\ Len(bolds) >= k
           /\ name \in {bolds[k], StripEmoji(bolds[k])}
           /\ \A c \in 1..Len(coins) : name # SubSeq(coins[c], 3, Len(coins[c]) - 2)

\* C7: no item name that beg or crime reports holds a custom-emoji tag.
C7_ItemNameHasNoEmojiTag ==
    result.family \in {"beg", "crime"} /\ ~result.raised /\ result.value.gain.items # None =>
        \A e \in 1..Len(result.value.gain.items[1]) :
            ~Contains(result.value.gain.items[1][e].name[1], <<"<", ":">>)

\* {quantity: item}, written out
Supplied(it, qty) ==
    [isNone |-> FALSE, coins |-> None, items |-> None,
     byQuantity |-> Some([quantity |-> qty, name |-> Some(it)])]

\* only a "coins" entry
OnlyCoins(d) == ~d.isNone /\ d.coins # None /\ d.items = None /\ d.byQuantity = None

\* C8: a confirmed buy (sell) has as gain (loss) exactly the caller's item
\* and quantity, and its coin amount is the one every other caller-supplied
\* pair gets for the same text.
C8_BuySellUseTheSuppliedItem ==
    /\ result.family = "buy" /\ ~result.raised /\ result.value.success =>
           /\ result.value.gain = Supplied(item, quantity)
           /\ OnlyCoins(result.value.loss)
           /\ \A it \in Items, qty \in Quantities :
                  LET other == buy(description, it, qty)
                  IN /\ ~other.raised
                     /\ other.value.gain = Supplied(it, qty)
                     /\ other.value.loss = result.value.loss
    /\ result.family = "sell" /\ ~result.raised /\ result.value.success =>
           /\ result.value.loss = Supplied(item, quantity)
           /\ OnlyCoins(result.value.gain)
           /\ \A it \in Items, qty \in Quantities :
                  LET other == sell(description, it, qty)
                  IN /\ ~other.raised
                     /\ other.value.loss = Supplied(it, qty)
                     /\ other.value.gain = result.value.gain

\* a confirmed purchase of 2 "Ab" whose text shows the bold span "It"
C8_Witness ==
    /\ result.family = "buy"
    /\ ~result.raised
    /\ result.value.success
    /\ item = <<"A", "b">>
    /\ quantity = 2
    /\ Len(findallBold(description)) >= 2
    /\ findallBold(description)[1] = <<"I", "t">>

\* the starts of the time tags <t:TIMESTAMP> and <t:TIMESTAMP:STYLE>
TimeTagStarts(s) ==
    {i \in 1..Len(s) :
         /\ StartsAt(s, i, <<"<", "t", ":">>)
         /\ DigitsEnd(s, i + 3) > 0
         /\ \/ StartsAt(s, DigitsEnd(s, i + 3) + 1, <<">">>)
            \/ StartsAt(s, DigitsEnd(s, i + 3) + 1, <<":">>)}

\* the timestamp of the first time tag, in seconds
TimeTagStamp(s) ==
    LET i == CHOOSE j \in TimeTagStarts(s) : \A k \in TimeTagStarts(s) : j <= k
    IN int(SubSeq(s, i + 3, DigitsEnd(s, i + 3)))

\* C9: for a text that holds a time tag, cooldown returns success false and
\* the tag's timestamp minus now (to the two decimals it is rounded to),
\* whatever other angle-bracket markup the text holds.
C9_CooldownIsTagMinusNow ==
    result.family = "cooldown" /\ TimeTagStarts(description) # {} =>
        /\ ~result.raised
        /\ result.value.success = FALSE
        /\ result.value.cooldown # None
        /\ result.value.cooldown[1] - (TimeTagStamp(description) * 1000 - now) \in -5..5

\* C10: no family extractor returns success true with both gain and loss
\* empty.
C10_SuccessCarriesSomething ==
    FamilyReturned /\ result.value.success =>
        ~(IsEmpty(result.value.gain) /\ IsEmpty(result.value.loss))

----------------------------------------------------------------------------
(* Per-token isolation of Cache.clear, under Spec *)

\* what cache c records for nonce b: its nonce_message_map entry, its
\* message_create entry, its membership in the two interaction lists, and the
\* message_updates entry of the message id mapped to it
RecordedFor(c, b) ==
    [mapped |-> IF b \in DOMAIN c.nonce_message_map
                THEN Some(c.nonce_message_map[b]) ELSE None,
     created |-> IF b \in DOMAIN c.message_create THEN Some(c.message_create[b]) ELSE None,
     acknowledged |-> InList(b, c.interaction_create),
     succeeded |-> InList(b, c.interaction_success),
     updated |-> IF b \in DOMAIN c.nonce_message_map
                    /\ c.nonce_message_map[b] \in DOMAIN c.message_updates
                 THEN Some(c.message_updates[c.nonce_message_map[b]]) ELSE None]

\* C11: clear(a) leaves everything recorded for any other nonce b unchanged:
\* b's nonce_message_map and message_create entries, its membership in
\* interaction_create and interaction_success, and the message_updates entry
\* of the message id mapped to b.
C11_ClearLeavesOtherNonces ==
    last.op = "clear" =>
        \A b \in Nonces \ {last.nonce} : RecordedFor(cache, b) = RecordedFor(last.before, b)

\* a clear of a nonce held in every structure, while another nonce was held in
\* every structure too and stood first in both lists, with an update recorded
\* for each one's message
C11_Witness ==
    /\ last.op = "clear"
    /\ Absent(cache, last.nonce)
    /\ RecordedFor(last.before, last.nonce).updated # None
    /\ RecordedFor(last.before, last.nonce).created # None
    /\ RecordedFor(last.before, last.nonce).acknowledged
    /\ RecordedFor(last.before, last.nonce).succeeded
    /\ \E b \in Nonces \ {last.nonce} :
           /\ RecordedFor(last.before, b).updated # None
           /\ RecordedFor(last.before, b).created # None
           /\ last.before.interaction_create[1] = b
           /\ last.before.interaction_success[1] = b

====
